---- MODULE Spec2Model ----
(***************************************************************************)
(* The drone-artifactory plugin, src/plugin/plugin.go.                     *)
(*                                                                         *)
(* One invocation of the plugin is one call of Exec(ctx, args).  Exec      *)
(* sleeps in a child shell, validates the arguments while it builds the    *)
(* jfrog command line, provisions the PEM certificate with a               *)
(* stat / mkdir / write sequence, and runs the command in a shell.         *)
(*                                                                         *)
(* Strings are TLA+ strings and fmt.Sprintf is string concatenation, so a  *)
(* token of the model is the token of the program.  A file path is the     *)
(* sequence of its components (<<>> is the empty string of PLUGIN_PEM_     *)
(* FILE_PATH), so that filepath.Dir and os.MkdirAll can be computed.       *)
(***************************************************************************)
EXTENDS Integers, Sequences, FiniteSets, TLC

VARIABLES
    goos,       \* runtime.GOOS of the build
    args,       \* args[p]: the Args value invocation p was called with
    pc,         \* pc[p]: where invocation p stands in Exec
    cmdArgs,    \* cmdArgs[p]: the local slice cmdArgs of Exec
    path,       \* path[p]: the local variable path of Exec
    err,        \* err[p]: the error Exec returned ("" is nil)
    spawned,    \* spawned[p]: the commands invocation p has run, in order
    touched,    \* touched[p]: invocation p has changed the filesystem
    files,      \* files[f]: the contents of regular file f; DOMAIN files exist
    dirs,       \* the directories that exist (the root always does)
    writes      \* writes[f]: how often os.WriteFile has written f (saturating)

vars == <<goos, args, pc, cmdArgs, path, err, spawned, touched, files, dirs, writes>>

----------------------------------------------------------------------------
(* Bounds of the model *)

\* integer options PLUGIN_RETRIES and PLUGIN_THREADS range over -1..MaxInt
MaxInt == 1
\* writes[f] saturates here
MaxWrites == 2

----------------------------------------------------------------------------
(* Platform switch, plugin.go 158-186 *)

OSFamilies == {"linux", "windows"}

getShell(os) == IF os = "windows" THEN <<"powershell", "-Command">> ELSE <<"sh", "-c">>

getSleepCommand(os) == IF os = "windows" THEN "Start-Sleep 600" ELSE "sleep 600"

getJfrogBin(os) == IF os = "windows" THEN "C:/bin/jfrog.exe" ELSE "jfrog"

getEnvPrefix(os) == IF os = "windows" THEN "$Env:" ELSE "$"

----------------------------------------------------------------------------
(* strconv.ParseBool and parseBoolOrDefault, plugin.go 188-196 *)

TrueStrings == {"1", "t", "T", "TRUE", "true", "True"}
FalseStrings == {"0", "f", "F", "FALSE", "false", "False"}

\* strconv.ParseBool(s): the value and whether err == nil
ParseBool(s) ==
    IF s \in TrueStrings THEN [value |-> TRUE, ok |-> TRUE]
    ELSE IF s \in FalseStrings THEN [value |-> FALSE, ok |-> TRUE]
    ELSE [value |-> FALSE, ok |-> FALSE]

parseBoolOrDefault(defaultValue, s) ==
    IF ParseBool(s).ok THEN ParseBool(s).value ELSE defaultValue

\* strconv.FormatBool
FormatBool(b) == IF b THEN "true" ELSE "false"

----------------------------------------------------------------------------
(* Helpers of the standard library *)

RECURSIVE Join(_, _)
\* strings.Join(elems, sep)
Join(elems, sep) ==
    IF Len(elems) = 0 THEN ""
    ELSE IF Len(elems) = 1 THEN elems[1]
    ELSE elems[1] \o sep \o Join(Tail(elems), sep)

\* filepath.Dir on a path given by its components
Dir(p) == IF Len(p) = 0 THEN <<>> ELSE SubSeq(p, 1, Len(p) - 1)

\* the proper ancestors of p, the root excluded
Ancestors(p) == {SubSeq(p, 1, k) : k \in 1..(Len(p) - 1)}

----------------------------------------------------------------------------
(* The Args value, plugin.go 19-41.  Pipeline and Level are not read by Exec. *)

\* the zero value Args{}
ZeroArgs ==
    [Username |-> "", Password |-> "", APIKey |-> "", AccessToken |-> "",
     URL |-> "", Source |-> "", Target |-> "", Retries |-> 0, Flat |-> "",
     Spec |-> "", Threads |-> 0, SpecVars |-> "", Insecure |-> "",
     PEMFileContents |-> "", PEMFilePath |-> <<>>]

\* the four secret fields
SecretFields == {"Username", "Password", "APIKey", "AccessToken"}

----------------------------------------------------------------------------
(* The errors Exec makes itself, and the child's *)

ErrMissingURL == "url needs to be set"
ErrMissingCredentials == "either username/password, api key or access token needs to be set"
ErrMissingSource == "source file needs to be set"
ErrMissingTarget == "target path needs to be set"
ErrCertDir == "error creating pem folder: "
ErrCertWrite == "error writing pem file: "
\* what cmd.Run() returns when the child fails
ErrChild == "exit status 1"

ValidationErrors == {ErrMissingURL, ErrMissingCredentials, ErrMissingSource, ErrMissingTarget}

----------------------------------------------------------------------------
(* The pieces of the command line, in the order Exec appends them *)

\* line 67
HeadArgs(a, os) == <<getJfrogBin(os), "rt", "u", "--url " \o a.URL>>

\* lines 68-70
RetriesFlag(a) ==
    IF a.Retries # 0 THEN <<"--retries=" \o ToString(a.Retries)>> ELSE <<>>

\* AuthFlags with the API key tried before username and password
AuthFlags_KeyFirst(a, os) ==
    IF a.APIKey # ""
    THEN <<"--apikey " \o getEnvPrefix(os) \o "PLUGIN_API_KEY">>
    ELSE IF a.Username # "" /\ a.Password # ""
    THEN <<"--user " \o getEnvPrefix(os) \o "PLUGIN_USERNAME",
           "--password " \o getEnvPrefix(os) \o "PLUGIN_PASSWORD">>
    ELSE IF a.AccessToken # ""
    THEN <<"--access-token " \o getEnvPrefix(os) \o "PLUGIN_ACCESS_TOKEN">>
    ELSE <<>>

\* AuthFlags with the secrets themselves on the command line
AuthFlags_Inline(a, os) ==
    IF a.Username # "" /\ a.Password # ""
    THEN <<"--user " \o a.Username, "--password " \o a.Password>>
    ELSE IF a.APIKey # ""
    THEN <<"--apikey " \o a.APIKey>>
    ELSE IF a.AccessToken # ""
    THEN <<"--access-token " \o a.AccessToken>>
    ELSE <<>>

\* lines 72-83; <<>> is the else branch that returns the error
AuthFlags(a, os) ==
    IF a.Username # "" /\ a.Password # ""
    THEN <<"--user " \o getEnvPrefix(os) \o "PLUGIN_USERNAME",
           "--password " \o getEnvPrefix(os) \o "PLUGIN_PASSWORD">>
    ELSE IF a.APIKey # ""
    THEN <<"--apikey " \o getEnvPrefix(os) \o "PLUGIN_API_KEY">>
    ELSE IF a.AccessToken # ""
    THEN <<"--access-token " \o getEnvPrefix(os) \o "PLUGIN_ACCESS_TOKEN">>
    ELSE <<>>

\* lines 85-86
FlatFlag(a) == <<"--flat=" \o FormatBool(parseBoolOrDefault(FALSE, a.Flat))>>

\* ThreadsFlag with the test Threads != 0
ThreadsFlag_NonZero(a) ==
    IF a.Threads # 0 THEN <<"--threads=" \o ToString(a.Threads)>> ELSE <<>>

\* lines 88-90
ThreadsFlag(a) ==
    IF a.Threads > 0 THEN <<"--threads=" \o ToString(a.Threads)>> ELSE <<>>

\* lines 92-95
InsecureFlag(a) ==
    IF parseBoolOrDefault(FALSE, a.Insecure) THEN <<"--insecure-tls">> ELSE <<>>

\* NeedsPem without the test of insecure
NeedsPem_IgnoresInsecure(a) == a.PEMFileContents # ""

\* line 97: the condition of the pem block
NeedsPem(a) == a.PEMFileContents # "" /\ ~parseBoolOrDefault(FALSE, a.Insecure)

\* lines 102 and 104
DefaultPemPath(os) ==
    IF os = "windows"
    THEN <<"C:", "users", "ContainerAdministrator", ".jfrog", "security", "certs", "cert.pem">>
    ELSE <<"root", ".jfrog", "security", "certs", "cert.pem">>

\* lines 98-108
PemPath(a, os) == IF a.PEMFilePath = <<>> THEN DefaultPemPath(os) ELSE a.PEMFilePath

\* UploadArgs without the check of the target
UploadArgs_NoTargetCheck(a) ==
    IF a.Spec # ""
    THEN [err |-> "",
          tokens |-> <<"--spec=" \o a.Spec>>
                     \o (IF a.SpecVars # ""
                         THEN <<"--spec-vars='" \o a.SpecVars \o "'">> ELSE <<>>)]
    ELSE IF a.Source = "" THEN [err |-> ErrMissingSource, tokens |-> <<>>]
    ELSE [err |-> "", tokens |-> <<"\"" \o a.Source \o "\"", a.Target>>]

\* UploadArgs with source and target checked before the spec is looked at
UploadArgs_SourceAlways(a) ==
    IF a.Source = "" THEN [err |-> ErrMissingSource, tokens |-> <<>>]
    ELSE IF a.Target = "" THEN [err |-> ErrMissingTarget, tokens |-> <<>>]
    ELSE IF a.Spec # ""
    THEN [err |-> "",
          tokens |-> <<"--spec=" \o a.Spec>>
                     \o (IF a.SpecVars # ""
                         THEN <<"--spec-vars='" \o a.SpecVars \o "'">> ELSE <<>>)]
    ELSE [err |-> "", tokens |-> <<"\"" \o a.Source \o "\"", a.Target>>]

\* lines 127-140: the error returned ("" for none) and the tokens appended
UploadArgs(a) ==
    IF a.Spec # ""
    THEN [err |-> "",
          tokens |-> <<"--spec=" \o a.Spec>>
                     \o (IF a.SpecVars # ""
                         THEN <<"--spec-vars='" \o a.SpecVars \o "'">> ELSE <<>>)]
    ELSE IF a.Source = "" THEN [err |-> ErrMissingSource, tokens |-> <<>>]
    ELSE IF a.Target = "" THEN [err |-> ErrMissingTarget, tokens |-> <<>>]
    ELSE [err |-> "", tokens |-> <<"\"" \o a.Source \o "\"", a.Target>>]

\* exec.Command(shell, shArg, cmdStr) with cmd.Env = os.Environ() plus extraEnv
Command(cmdStr, extraEnv, os) ==
    [argv |-> getShell(os) \o <<cmdStr>>, env |-> extraEnv]

\* lines 44-48: the command putSleep runs
SleepCommand(os) == Command(getSleepCommand(os), {}, os)

\* lines 142-148: the command Exec runs for the upload
UploadCommand(tokens, os) ==
    Command(Join(tokens, " "), {"JFROG_CLI_OFFER_CONFIG=false"}, os)

----------------------------------------------------------------------------
(* The filesystem calls of the pem block *)

\* os.Stat(p): nil when p exists, else the errno the path lookup gives
Stat(p) ==
    IF p \in DOMAIN files \/ p \in dirs THEN "nil"
    ELSE IF Ancestors(p) \cap DOMAIN files # {} THEN "ENOTDIR"
    ELSE "ENOENT"

\* what os.Stat(p) can return: the lookup's answer, or a permission error
StatResults(p) == {Stat(p), "EACCES"}

\* the test err != nil in the place of os.IsNotExist(err)
IsNotExist_AnyError(e) == e # "nil"

\* os.IsNotExist(err), line 111
IsNotExist(e) == e = "ENOENT"

\* os.MkdirAll(d, 0700) can succeed: no component of d is a regular file
MkdirAllPossible(d) == (Ancestors(d) \cup {d}) \cap DOMAIN files = {}

\* the directories after a successful os.MkdirAll(d, 0700)
MkdirAll(d) == dirs \cup ((Ancestors(d) \cup {d}) \ {<<>>})

\* os.WriteFile(f, data, 0600) can open f: its directory exists, f is no directory
WriteFilePossible(f) == (Dir(f) = <<>> \/ Dir(f) \in dirs) /\ f \notin dirs

\* a write that leaves an existing file alone (O_CREATE|O_EXCL)
WriteFile_Excl(f, data) == IF f \in DOMAIN files THEN files ELSE (f :> data) @@ files

\* the files after os.WriteFile(f, data, 0600) wrote data (O_CREATE|O_TRUNC)
WriteFile(f, data) == (f :> data) @@ files

\* the saturating count of writes of f
CountWrite(f) ==
    [g \in DOMAIN writes \cup {f} |->
        IF g = f
        THEN (IF f \in DOMAIN writes
              THEN (IF writes[f] < MaxWrites THEN writes[f] + 1 ELSE MaxWrites)
              ELSE 1)
        ELSE writes[g]]

----------------------------------------------------------------------------
(* The argument values the invocations are called with *)

IntOptions == -1..MaxInt
BoolOptions == {"", "true", "maybe"}
PemContents == {"PEM-A", "PEM-B"}
\* PLUGIN_PEM_FILE_PATH = /certs/ca.pem
ExplicitPemPath == <<"certs", "ca.pem">>

\* the command-line options in full, no certificate
ArgsBuild ==
    [Username : {"", "alice"}, Password : {"", "hunter2"}, APIKey : {"", "AKCp8"},
     AccessToken : {"", "eyJ2"}, URL : {"", "https://example.com"},
     Source : {"", "build/app.zip"}, Target : {"", "libs/app.zip"},
     Retries : IntOptions, Flat : BoolOptions, Spec : {"", "spec.json"},
     Threads : IntOptions, SpecVars : {"", "env=ci"}, Insecure : {"", "true"},
     PEMFileContents : {""}, PEMFilePath : {<<>>}]

\* a few invocations with a certificate, on top of ArgsBuild
ArgsBuildPem ==
    [Username : {"alice"}, Password : {"hunter2"}, APIKey : {""},
     AccessToken : {""}, URL : {"https://example.com"},
     Source : {"", "build/app.zip"}, Target : {"libs/app.zip"},
     Retries : {0}, Flat : {""}, Spec : {""},
     Threads : {0}, SpecVars : {""}, Insecure : {"", "true"},
     PEMFileContents : {"PEM-A"}, PEMFilePath : {<<>>}]

\* the certificate options in full, few command-line options
ArgsCert ==
    [Username : {"alice"}, Password : {"hunter2"}, APIKey : {""},
     AccessToken : {""}, URL : {"", "https://example.com"},
     Source : {"", "build/app.zip"}, Target : {"libs/app.zip"},
     Retries : {0}, Flat : {""}, Spec : {""},
     Threads : {0}, SpecVars : {""}, Insecure : BoolOptions,
     PEMFileContents : {""} \cup PemContents, PEMFilePath : {<<>>, ExplicitPemPath}]

\* the secrets in full: each absent or one of two values
ArgsSecrets ==
    [Username : {"", "alice", "bob"}, Password : {"", "hunter2", "swordfish"},
     APIKey : {"", "AKCp8", "AKCp9"}, AccessToken : {"", "eyJ2", "eyJ3"},
     URL : {"https://example.com"},
     Source : {"build/app.zip"}, Target : {"libs/app.zip"},
     Retries : {0}, Flat : {""}, Spec : {""},
     Threads : {0}, SpecVars : {""}, Insecure : {""},
     PEMFileContents : {""}, PEMFilePath : {<<>>}]

\* two invocations that provision a certificate
ArgsRace ==
    [Username : {"alice"}, Password : {"hunter2"}, APIKey : {""},
     AccessToken : {""}, URL : {"https://example.com"},
     Source : {"build/app.zip"}, Target : {"libs/app.zip"},
     Retries : {0}, Flat : {""}, Spec : {""},
     Threads : {0}, SpecVars : {""}, Insecure : {"", "true"},
     PEMFileContents : PemContents, PEMFilePath : {<<>>, ExplicitPemPath}]

\* the invocations of the plugin
Invocations == {1, 2}

----------------------------------------------------------------------------
(* Initial states *)

\* the files a certificate path and its directories stand for
FilesAt(ps, data) == [f \in ps |-> data]
DirsOf(ps) == UNION {Ancestors(f) : f \in ps}

\* before the first invocation: no invocation is running, the filesystem holds fs
InitWith(os, fs) ==
    /\ goos = os
    /\ args = [p \in Invocations |-> ZeroArgs]
    /\ pc = [p \in Invocations |-> "idle"]
    /\ cmdArgs = [p \in Invocations |-> <<>>]
    /\ path = [p \in Invocations |-> <<>>]
    /\ err = [p \in Invocations |-> ""]
    /\ spawned = [p \in Invocations |-> <<>>]
    /\ touched = [p \in Invocations |-> FALSE]
    /\ files = FilesAt(fs, "PEM-OLD")
    /\ dirs = DirsOf(fs)
    /\ writes = FilesAt({}, 0)

\* a fresh container: no certificate file yet
Init == \E os \in OSFamilies : InitWith(os, {})

\* any of the certificate files may be there already
InitAny ==
    \E os \in OSFamilies :
        \E fs \in SUBSET {DefaultPemPath(os), ExplicitPemPath} : InitWith(os, fs)

----------------------------------------------------------------------------
(* Exec, plugin.go 58-156, one action per blocking call *)

\* lines 58-60: Exec is entered with a \in dom and putSleep runs the sleep
\* command to its end; its result is dropped (line 54)
Exec_putSleep(p, dom, again) ==
    /\ pc[p] = "idle" \/ (again /\ pc[p] = "returned")
    /\ \E a \in dom : args' = [args EXCEPT ![p] = a]
    /\ pc' = [pc EXCEPT ![p] = "validate"]
    /\ cmdArgs' = [cmdArgs EXCEPT ![p] = <<>>]
    /\ path' = [path EXCEPT ![p] = <<>>]
    /\ err' = [err EXCEPT ![p] = ""]
    /\ spawned' = [spawned EXCEPT ![p] = <<SleepCommand(goos)>>]
    /\ touched' = [touched EXCEPT ![p] = FALSE]
    /\ UNCHANGED <<goos, files, dirs, writes>>

\* Exec returns e
Return(p, e) ==
    /\ pc' = [pc EXCEPT ![p] = "returned"]
    /\ err' = [err EXCEPT ![p] = e]

\* lines 63-111: the URL and credential checks, the flags, and os.Stat
Exec_build(p) ==
    LET a == args[p]
        head == HeadArgs(a, goos) \o RetriesFlag(a)
        flags == head \o AuthFlags(a, goos) \o FlatFlag(a) \o ThreadsFlag(a)
                      \o InsecureFlag(a)
    IN  /\ pc[p] = "validate"
        /\ IF a.URL = ""
           THEN /\ Return(p, ErrMissingURL)
                /\ UNCHANGED <<cmdArgs, path>>
           ELSE IF AuthFlags(a, goos) = <<>>
           THEN /\ Return(p, ErrMissingCredentials)
                /\ cmdArgs' = [cmdArgs EXCEPT ![p] = head]
                /\ UNCHANGED path
           ELSE /\ cmdArgs' = [cmdArgs EXCEPT ![p] = flags]
                /\ UNCHANGED err
                /\ IF NeedsPem(a)
                   THEN /\ path' = [path EXCEPT ![p] = PemPath(a, goos)]
                        /\ \E e \in StatResults(PemPath(a, goos)) :
                              pc' = [pc EXCEPT ![p] =
                                        IF IsNotExist(e) THEN "mkdir" ELSE "upload"]
                   ELSE /\ UNCHANGED path
                        /\ pc' = [pc EXCEPT ![p] = "upload"]
        /\ UNCHANGED <<goos, args, spawned, touched, files, dirs, writes>>

\* lines 113-117: os.MkdirAll(filepath.Dir(path), 0700)
Exec_MkdirAll(p) ==
    /\ pc[p] = "mkdir"
    /\ \/ /\ MkdirAllPossible(Dir(path[p]))
          /\ dirs' = MkdirAll(Dir(path[p]))
          /\ touched' = [touched EXCEPT ![p] = touched[p] \/ dirs' # dirs]
          /\ pc' = [pc EXCEPT ![p] = "write"]
          /\ UNCHANGED err
       \/ /\ Return(p, ErrCertDir)
          /\ UNCHANGED <<dirs, touched>>
    /\ UNCHANGED <<goos, args, cmdArgs, path, spawned, files, writes>>

\* lines 119-123: os.WriteFile(path, contents, 0600): it writes the contents,
\* fails to open the file, or fails after it has created or truncated it
Exec_WriteFile(p) ==
    /\ pc[p] = "write"
    /\ \/ /\ WriteFilePossible(path[p])
          /\ files' = WriteFile(path[p], args[p].PEMFileContents)
          /\ writes' = CountWrite(path[p])
          /\ touched' = [touched EXCEPT ![p] = TRUE]
          /\ pc' = [pc EXCEPT ![p] = "upload"]
          /\ UNCHANGED err
       \/ /\ WriteFilePossible(path[p])
          /\ files' = WriteFile(path[p], "")
          /\ writes' = CountWrite(path[p])
          /\ touched' = [touched EXCEPT ![p] = TRUE]
          /\ Return(p, ErrCertWrite)
       \/ /\ Return(p, ErrCertWrite)
          /\ UNCHANGED <<files, writes, touched>>
    /\ UNCHANGED <<goos, args, cmdArgs, path, spawned, dirs>>

\* lines 126-155: the spec or source/target tokens, then the upload command is
\* run to its end and its error returned
Exec_upload(p) ==
    LET up == UploadArgs(args[p])
        tokens == cmdArgs[p] \o up.tokens
    IN  /\ pc[p] = "upload"
        /\ IF up.err # ""
           THEN /\ Return(p, up.err)
                /\ UNCHANGED <<cmdArgs, spawned>>
           ELSE /\ cmdArgs' = [cmdArgs EXCEPT ![p] = tokens]
                /\ spawned' = [spawned EXCEPT ![p] = Append(@, UploadCommand(tokens, goos))]
                /\ \E e \in {"", ErrChild} : Return(p, e)
        /\ UNCHANGED <<goos, args, path, touched, files, dirs, writes>>

\* one step of invocation p
Step(p) == Exec_build(p) \/ Exec_MkdirAll(p) \/ Exec_WriteFile(p) \/ Exec_upload(p)

----------------------------------------------------------------------------
(* Specifications *)

\* one invocation in a fresh container, any command-line options
Next == Exec_putSleep(1, ArgsBuild \cup ArgsBuildPem, FALSE) \/ Step(1)
Spec == Init /\ [][Next]_vars

\* invocations one after the other, any certificate options, any filesystem
NextCert == Exec_putSleep(1, ArgsCert, TRUE) \/ Step(1)
SpecCert == InitAny /\ [][NextCert]_vars

\* two invocations, any secrets, a few with a certificate
NextPair ==
    \E p \in Invocations : Exec_putSleep(p, ArgsSecrets \cup ArgsBuildPem, FALSE) \/ Step(p)
SpecPair == Init /\ [][NextPair]_vars

\* two invocations at the same time, both with a certificate
NextRace == \E p \in Invocations : Exec_putSleep(p, ArgsRace, FALSE) \/ Step(p)
SpecRace == Init /\ [][NextRace]_vars

----------------------------------------------------------------------------
(* What the properties below speak of *)

Range(seq) == {seq[i] : i \in DOMAIN seq}

\* invocation p is past the URL and credential checks or has returned
Built(p) == pc[p] \in {"mkdir", "write", "upload", "returned"}

Returned(p) == pc[p] = "returned"

\* invocation p has run the upload command
UploadSpawned(p) == Len(spawned[p]) = 2

\* the environment-variable prefix of the platform
Prefix == IF goos = "windows" THEN "$Env:" ELSE "$"

UserToken == "--user " \o Prefix \o "PLUGIN_USERNAME"
PasswordToken == "--password " \o Prefix \o "PLUGIN_PASSWORD"
APIKeyToken == "--apikey " \o Prefix \o "PLUGIN_API_KEY"
AccessTokenToken == "--access-token " \o Prefix \o "PLUGIN_ACCESS_TOKEN"
CredentialTokens == {UserToken, PasswordToken, APIKeyToken, AccessTokenToken}

\* the credential tokens invocation p has emitted
Emitted(p) == Range(cmdArgs[p]) \cap CredentialTokens

----------------------------------------------------------------------------
(* C1: if Exec returns a configuration validation error (MissingURL,          *)
(* MissingCredentials, MissingSource, MissingTarget), no child process has    *)
(* been spawned during that call.  The code runs the sleep command first.     *)
C1_NoSpawnOnValidationError ==
    \A p \in Invocations :
        (Returned(p) /\ err[p] \in ValidationErrors) => spawned[p] = <<>>

(* C2: the certificate is provisioned only after all validation has           *)
(* succeeded: an Exec call that ends in a validation error has left the       *)
(* filesystem unchanged.  The code checks source and target after the write.  *)
C2_ValidationErrorLeavesFilesystem ==
    \A p \in Invocations :
        (Returned(p) /\ err[p] \in ValidationErrors) => ~touched[p]

(* C3: with a non-empty URL the emitted credential flags are those of the     *)
(* first resolvable mode in the order (username and password), API key,       *)
(* access token, and of no other mode; if none is resolvable Exec returns     *)
(* MissingCredentials and has run nothing but the sleep command.              *)
C3_CredentialPrecedence ==
    \A p \in Invocations :
        (Built(p) /\ args[p].URL # "") =>
            LET a == args[p] IN
            IF a.Username # "" /\ a.Password # "" THEN Emitted(p) = {UserToken, PasswordToken}
            ELSE IF a.APIKey # "" THEN Emitted(p) = {APIKeyToken}
            ELSE IF a.AccessToken # "" THEN Emitted(p) = {AccessTokenToken}
            ELSE /\ Emitted(p) = {}
                 /\ Returned(p)
                 /\ err[p] = ErrMissingCredentials
                 /\ ~UploadSpawned(p)

\* username, password and an API key are all set, and the upload has run
C3_Witness ==
    \E p \in Invocations :
        /\ Returned(p) /\ UploadSpawned(p)
        /\ args[p].Username # "" /\ args[p].Password # "" /\ args[p].APIKey # ""
        /\ Emitted(p) = {UserToken, PasswordToken}

\* the errors of the certificate block
CertErrors == {ErrCertDir, ErrCertWrite}

\* the source token and the tokens made of fields that are no secrets
QuotedSource(a) == "\"" \o a.Source \o "\""
PublicTokens(a) ==
    {IF goos = "windows" THEN "C:/bin/jfrog.exe" ELSE "jfrog", "rt", "u",
     "--url " \o a.URL, "--retries=" \o ToString(a.Retries),
     "--flat=true", "--flat=false", "--threads=" \o ToString(a.Threads),
     "--insecure-tls", "--spec=" \o a.Spec,
     "--spec-vars='" \o a.SpecVars \o "'", QuotedSource(a), a.Target}

\* a and b differ at most in the values of secrets that both set
SecretsAlike(a, b) ==
    /\ \A f \in (DOMAIN a) \ SecretFields : a[f] = b[f]
    /\ \A f \in SecretFields : (a[f] = "") <=> (b[f] = "")

(* C4: secrets by reference.  Two invocations whose arguments agree on every  *)
(* field but the values of the non-empty secrets build the same tokens and    *)
(* run the same commands (certificate I/O errors aside), and every token      *)
(* that is not made of the other fields is a credential flag whose value is   *)
(* the prefix ($ or $Env:) followed by the name of the PLUGIN_ variable.      *)
C4_SecretsByReference ==
    /\ \A p, q \in Invocations :
          ( /\ Returned(p) /\ Returned(q)
            /\ err[p] \notin CertErrors /\ err[q] \notin CertErrors
            /\ SecretsAlike(args[p], args[q]) )
          => (cmdArgs[p] = cmdArgs[q] /\ spawned[p] = spawned[q])
    /\ \A p \in Invocations :
          Range(cmdArgs[p]) \ PublicTokens(args[p]) \subseteq CredentialTokens

\* two uploads have run whose usernames and API keys differ
C4_Witness ==
    /\ Returned(1) /\ Returned(2) /\ UploadSpawned(1) /\ UploadSpawned(2)
    /\ SecretsAlike(args[1], args[2])
    /\ args[1].Username = "alice" /\ args[2].Username = "bob"
    /\ args[1].Password # args[2].Password
    /\ cmdArgs[1] = cmdArgs[2] /\ UserToken \in Range(cmdArgs[1])

\* the spec path is set / source and target are both set
HasSpec(a) == a.Spec # ""
HasPair(a) == a.Source # "" /\ a.Target # ""

(* C5 as claimed: the upload runs only when exactly one of the spec path and  *)
(* the source+target pair is populated; both populated is rejected.           *)
C5_ExactlyOnePopulated ==
    \A p \in Invocations :
        UploadSpawned(p) => (HasSpec(args[p]) /\ ~HasPair(args[p]))
                            \/ (~HasSpec(args[p]) /\ HasPair(args[p]))

(* C5 as amended: the upload runs only when at least one of the spec path and *)
(* the source+target pair is populated, and Exec returns MissingSource or     *)
(* MissingTarget only when neither is: arguments with both populated are not  *)
(* rejected, the spec path is used and source and target are left out.        *)
C5_AtLeastOnePopulated ==
    \A p \in Invocations :
        /\ UploadSpawned(p) => (HasSpec(args[p]) \/ HasPair(args[p]))
        /\ (Returned(p) /\ err[p] \in {ErrMissingSource, ErrMissingTarget})
              => (~HasSpec(args[p]) /\ ~HasPair(args[p]))
        /\ (UploadSpawned(p) /\ HasSpec(args[p]) /\ HasPair(args[p]))
              => QuotedSource(args[p]) \notin Range(cmdArgs[p])

\* an upload has run with the spec path, the source and the target all set
C5_Witness ==
    \E p \in Invocations :
        UploadSpawned(p) /\ HasSpec(args[p]) /\ HasPair(args[p])

\* one of the three credential modes is set in full
HasCredentials(a) ==
    (a.Username # "" /\ a.Password # "") \/ a.APIKey # "" \/ a.AccessToken # ""

\* the last two elements of a sequence
LastTwo(seq) == SubSeq(seq, Len(seq) - 1, Len(seq))

C9_FixedOrder ==
    \A p \in Invocations :
        UploadSpawned(p) =>
            LET a == args[p]
                tool == IF goos = "windows" THEN "C:/bin/jfrog.exe" ELSE "jfrog"
                retries == IF a.Retries # 0
                           THEN <<"--retries=" \o ToString(a.Retries)>> ELSE <<>>
                flat == IF a.Flat \in TrueStrings THEN "--flat=true" ELSE "--flat=false"
                threads == IF a.Threads > 0
                           THEN <<"--threads=" \o ToString(a.Threads)>> ELSE <<>>
                insecure == IF a.Insecure \in TrueStrings THEN <<"--insecure-tls">> ELSE <<>>
                specvars == IF a.SpecVars # ""
                            THEN <<"--spec-vars='" \o a.SpecVars \o "'">> ELSE <<>>
            IN  \E cred \in {<<UserToken, PasswordToken>>, <<APIKeyToken>>, <<AccessTokenToken>>} :
                \E last \in {<<"--spec=" \o a.Spec>> \o specvars, <<QuotedSource(a), a.Target>>} :
                    cmdArgs[p] = <<tool, "rt", "u", "--url " \o a.URL>> \o retries \o cred
                                 \o <<flat>> \o threads \o insecure \o last

\* an upload with negative threads, retries, an unparseable flat option,
\* insecure, source and target
C9_Witness ==
    \E p \in Invocations :
        /\ UploadSpawned(p)
        /\ args[p].Threads < 0 /\ args[p].Retries < 0 /\ args[p].Flat = "maybe"
        /\ args[p].Insecure = "true" /\ args[p].Spec = ""
        /\ Len(cmdArgs[p]) = 11
        /\ cmdArgs[p][5] = "--retries=-1" /\ cmdArgs[p][8] = "--flat=false"

(* C7: over invocations that follow one another, a certificate file is        *)
(* written at most once, by an invocation that found it absent; a file that   *)
(* exists is never overwritten, whatever contents a later invocation brings,  *)
(* and that invocation goes on to the upload without an error.                *)
C7_CertificateWrittenOnce ==
    [][ /\ \A f \in DOMAIN files : f \in DOMAIN files' /\ files'[f] = files[f]
        /\ \A f \in DOMAIN writes' : writes'[f] <= 1
        /\ \A p \in Invocations :
              ( /\ pc[p] = "validate" /\ pc'[p] # "validate"
                /\ args[p].URL # "" /\ HasCredentials(args[p])
                /\ args[p].PEMFileContents # "" /\ args[p].Insecure \notin TrueStrings
                /\ (IF args[p].PEMFilePath = <<>>
                    THEN DefaultPemPath(goos) ELSE args[p].PEMFilePath) \in DOMAIN files )
              => (pc'[p] = "upload" /\ err'[p] = "" /\ ~touched'[p])
      ]_vars

\* the file written once with PEM-A is still PEM-A after an invocation with
\* PEM-B for the same path has returned without touching it
C7_Witness ==
    /\ Returned(1) /\ UploadSpawned(1) /\ err[1] = ""
    /\ args[1].PEMFileContents = "PEM-B" /\ args[1].Insecure \notin TrueStrings
    /\ path[1] \in DOMAIN files /\ files[path[1]] = "PEM-A"
    /\ path[1] \in DOMAIN writes /\ writes[path[1]] = 1
    /\ ~touched[1]

(* C8: when the insecure option parses as true no step of the invocation      *)
(* changes a file or a directory, even with certificate contents, and the     *)
(* insecure flag is on the command line; when it is absent or does not parse  *)
(* it counts as false and the flag is not on the command line.                *)
C8_InsecureSkipsCertificate ==
    /\ [](\A p \in Invocations :
            (Built(p) /\ args[p].URL # "" /\ HasCredentials(args[p])) =>
                ("--insecure-tls" \in Range(cmdArgs[p]) <=> args[p].Insecure \in TrueStrings))
    /\ [][ \A p \in Invocations :
              (pc'[p] # "idle" /\ args'[p].Insecure \in TrueStrings)
                  => (files' = files /\ dirs' = dirs /\ ~touched'[p]) ]_vars

\* insecure with certificate contents whose file is absent: the upload has
\* run and the file is still absent
C8_Witness ==
    /\ Returned(1) /\ UploadSpawned(1)
    /\ args[1].Insecure = "true" /\ args[1].PEMFileContents # ""
    /\ PemPath(args[1], goos) \notin DOMAIN files
    /\ "--insecure-tls" \in Range(cmdArgs[1])

(* C10: the certificate write is a check followed by a write, with no lock:   *)
(* an invocation that has passed the existence check writes its contents      *)
(* whether or not the file exists by then, so two invocations at the same     *)
(* time can both pass the check and both write, the second over the first.    *)
C10_WriteAfterCheckOverwrites ==
    [][ \A p \in Invocations :
           (pc[p] = "write" /\ pc'[p] = "upload")
               => /\ path[p] \in DOMAIN files'
                  /\ files'[path[p]] = args[p].PEMFileContents
                  /\ writes'[path[p]] =
                        (IF path[p] \in DOMAIN writes THEN writes[path[p]] + 1 ELSE 1) ]_vars

\* both invocations found the same file absent and both have written it: it
\* holds the contents of the second, which differ from those of the first
C10_Witness ==
    /\ pc[1] = "upload" /\ pc[2] = "upload"
    /\ path[1] = path[2] /\ path[1] \in DOMAIN writes /\ writes[path[1]] = 2
    /\ args[1].PEMFileContents = "PEM-A" /\ args[2].PEMFileContents = "PEM-B"
    /\ files[path[1]] = "PEM-B"

====
